---------------------------- MODULE Spec2Model ----------------------------
(***************************************************************************)
(* A model of the voice-call assistant of src/agent.py and of the text     *)
(* functions of src/emotion_tts.py.                                        *)
(*                                                                         *)
(* Text is kept as TLA+ strings; a character is a string of length one.    *)
(* Python's re module is modelled by a backtracking matcher (Run) over a   *)
(* sequence of pattern nodes, which tries alternatives in the order the re *)
(* module does: alternatives left to right, greedy repeats longest first,  *)
(* lazy repeats shortest first.                                            *)
(***************************************************************************)
EXTENDS Integers, Sequences, FiniteSets, TLC

(***************************************************************************)
(* Characters and strings                                                  *)
(***************************************************************************)
UpperLetters == "ABCDEFGHIJKLMNOPQRSTUVWXYZ"

LowerLetters == "abcdefghijklmnopqrstuvwxyz"

DigitsAndUnderscore == "0123456789_"

CharAt(s, i) == SubSeq(s, i, i)

CharsOf(s) == { CharAt(s, i) : i \in 1..Len(s) }

\* \w of the re module, on the ASCII characters the model uses
WordChars == CharsOf(UpperLetters) \cup CharsOf(LowerLetters) \cup CharsOf(DigitsAndUnderscore)

\* \s of the re module
SpaceChars == {" ", "\t", "\n", "\r"}

IndexIn(c, s) == CHOOSE i \in 1..Len(s) : CharAt(s, i) = c

LowerChar(c) == IF c \in CharsOf(UpperLetters) THEN CharAt(LowerLetters, IndexIn(c, UpperLetters)) ELSE c

UpperChar(c) == IF c \in CharsOf(LowerLetters) THEN CharAt(UpperLetters, IndexIn(c, LowerLetters)) ELSE c

RECURSIVE lower(_)
\* str.lower()
lower(s) == IF s = "" THEN "" ELSE LowerChar(CharAt(s, 1)) \o lower(SubSeq(s, 2, Len(s)))

RECURSIVE upper(_)
\* str.upper()
upper(s) == IF s = "" THEN "" ELSE UpperChar(CharAt(s, 1)) \o upper(SubSeq(s, 2, Len(s)))

\* s[i:] of Python starts with p, i counted from 1
StartsWithAt(s, i, p) == i + Len(p) - 1 <= Len(s) /\ SubSeq(s, i, i + Len(p) - 1) = p

RECURSIVE RunLength(_, _, _)
\* the number of consecutive characters of class cls in s from position i on
RunLength(s, i, cls) ==
    IF i <= Len(s) /\ CharAt(s, i) \in cls THEN 1 + RunLength(s, i + 1, cls) ELSE 0

(***************************************************************************)
(* Pattern nodes: the constructs the repository's regular expressions use  *)
(***************************************************************************)
Lit(s) == [k |-> "lit", s |-> s]

\* (?:a|b|...): each alternative is a sequence of nodes
Alt(alts) == [k |-> "alt", alts |-> alts]

\* (?:a|b|...) of literal words
AltLit(words) == Alt([i \in 1..Len(words) |-> <<Lit(words[i])>>])

\* (?:...)?  greedy
Opt(body) == [k |-> "opt", body |-> body]

\* \s+  greedy
Spaces == [k |-> "spaces"]

\* (\w+)  greedy, capturing group g
Word(g) == [k |-> "word", g |-> g]

\* (.*?)  lazy, capturing group g, DOTALL (any character, newline included)
LazyAny(g) == [k |-> "lazy", g |-> g]

\* \g  back-reference to group g
BackRef(g) == [k |-> "backref", g |-> g]

\* \b
WordBoundary == [k |-> "wb"]

NoMatch == [ok |-> FALSE]

NoGroups == <<>>

\* caps with group g set to the half-open span [from, to) of the text
SetGroup(caps, g, from, to) ==
    [h \in (DOMAIN caps) \cup {g} |-> IF h = g THEN <<from, to>> ELSE caps[h]]

\* match.group(g)
Group(t, caps, g) == SubSeq(t, caps[g][1], caps[g][2] - 1)

IsWordAt(t, i) == i >= 1 /\ i <= Len(t) /\ CharAt(t, i) \in WordChars

\* \b holds between positions i-1 and i
AtWordBoundary(t, i) == IsWordAt(t, i - 1) # IsWordAt(t, i)

RECURSIVE Run(_, _, _, _)
RECURSIVE RunAlts(_, _, _, _, _, _)
RECURSIVE RunGreedy(_, _, _, _, _, _)
RECURSIVE RunLazy(_, _, _, _, _, _)

\* The first way, in the re module's backtracking order, to match the nodes ns
\* against t from position i on.
Run(t, ns, i, caps) ==
    IF ns = <<>> THEN [ok |-> TRUE, end |-> i, caps |-> caps]
    ELSE LET n == Head(ns)
             rest == Tail(ns)
         IN CASE n.k = "lit" ->
                   IF StartsWithAt(t, i, n.s) THEN Run(t, rest, i + Len(n.s), caps) ELSE NoMatch
              [] n.k = "alt" -> RunAlts(t, n.alts, 1, rest, i, caps)
              [] n.k = "opt" ->
                   LET taken == Run(t, n.body \o rest, i, caps)
                   IN IF taken.ok THEN taken ELSE Run(t, rest, i, caps)
              [] n.k = "spaces" -> RunGreedy(t, rest, i, RunLength(t, i, SpaceChars), caps, 0)
              [] n.k = "word" -> RunGreedy(t, rest, i, RunLength(t, i, WordChars), caps, n.g)
              [] n.k = "lazy" -> RunLazy(t, rest, i, 0, caps, n.g)
              [] n.k = "backref" ->
                   LET s == Group(t, caps, n.g)
                   IN IF StartsWithAt(t, i, s) THEN Run(t, rest, i + Len(s), caps) ELSE NoMatch
              [] n.k = "wb" -> IF AtWordBoundary(t, i) THEN Run(t, rest, i, caps) ELSE NoMatch

\* alternatives j, j+1, ... in order, each followed by rest
RunAlts(t, alts, j, rest, i, caps) ==
    IF j > Len(alts) THEN NoMatch
    ELSE LET r == Run(t, alts[j] \o rest, i, caps)
         IN IF r.ok THEN r ELSE RunAlts(t, alts, j + 1, rest, i, caps)

\* a repeat of one or more characters taking n, n-1, ..., 1 of them (group g
\* captures them when g > 0)
RunGreedy(t, rest, i, n, caps, g) ==
    IF n < 1 THEN NoMatch
    ELSE LET r == Run(t, rest, i + n, IF g > 0 THEN SetGroup(caps, g, i, i + n) ELSE caps)
         IN IF r.ok THEN r ELSE RunGreedy(t, rest, i, n - 1, caps, g)

\* a lazy repeat of any characters taking n, n+1, ... of them into group g
RunLazy(t, rest, i, n, caps, g) ==
    IF i + n > Len(t) + 1 THEN NoMatch
    ELSE LET r == Run(t, rest, i + n, SetGroup(caps, g, i, i + n))
         IN IF r.ok THEN r ELSE RunLazy(t, rest, i, n + 1, caps, g)

RECURSIVE SearchFrom(_, _, _)
\* pattern.search(t, pos): the match at the leftmost start position >= pos
SearchFrom(t, ns, pos) ==
    IF pos > Len(t) + 1 THEN NoMatch
    ELSE LET r == Run(t, ns, pos, NoGroups)
         IN IF r.ok THEN [ok |-> TRUE, start |-> pos, end |-> r.end, caps |-> r.caps]
            ELSE SearchFrom(t, ns, pos + 1)

\* re.search(pattern, t)
Search(t, ns) == SearchFrom(t, ns, 1)

RECURSIVE FindIterFrom(_, _, _)
\* re.finditer(pattern, t): the non-overlapping matches, left to right
FindIterFrom(t, ns, pos) ==
    LET m == SearchFrom(t, ns, pos)
    IN IF ~m.ok THEN <<>>
       ELSE <<m>> \o FindIterFrom(t, ns, IF m.end > m.start THEN m.end ELSE m.end + 1)

FindIter(t, ns) == FindIterFrom(t, ns, 1)

(***************************************************************************)
(* agent.py: detect_emotion_request                                        *)
(***************************************************************************)
None == "None"

SpeakVerbs == AltLit(<<"talk", "speak", "respond", "reply", "chat", "sound", "be">>)

ToMe == Opt(<<Spaces, Lit("to"), Spaces, Lit("me")>>)

Preposition == Opt(<<AltLit(<<"in", "with", "using", "like">>)>>)

\* (?:an?\s+)?
Article == Opt(<<Lit("a"), Opt(<<Lit("n")>>), Spaces>>)

ToneNoun == <<Spaces, AltLit(<<"mode", "tone", "voice", "style", "emotion", "manner", "way">>)>>

\* the body the first two patterns share: verb, "to me", preposition, article,
\* the captured word and the optional tone noun
SpeakPhrase ==
    <<SpeakVerbs, ToMe, Spaces, Preposition, Spaces, Article, Word(1), Opt(ToneNoun)>>

PolitePrefix ==
    <<Alt(<< <<Lit("can"), Spaces, Lit("you")>>, <<Lit("could"), Spaces, Lit("you")>>,
             <<Lit("will"), Spaces, Lit("you")>>, <<Lit("would"), Spaces, Lit("you")>> >>),
      Opt(<<Spaces, Lit("please")>>), Spaces>>

SwitchPhrase ==
    <<AltLit(<<"switch", "change", "go">>), Opt(<<Spaces, Lit("to")>>), Spaces, Article,
      Word(1)>> \o ToneNoun

MakePhrase ==
    <<Alt(<< <<Lit("make"), Spaces, Lit("your"), Spaces, Lit("voice")>>,
             <<Lit("use"), Spaces, Lit("a")>>, <<Lit("try"), Spaces, Lit("a")>> >>),
      Opt(<<Spaces, Lit("more")>>), Spaces, Word(1)>>

\* the four patterns, in the order of the list
patterns == <<SpeakPhrase, PolitePrefix \o SpeakPhrase, SwitchPhrase, MakePhrase>>

valid_emotions ==
    {"angry", "sad", "cheerful", "excited", "empathetic", "friendly", "shouting",
     "terrified", "unfriendly", "newscast", "narration", "poetry", "curious", "confused",
     "joyful", "delightful"}

\* the word pattern j captures in t, or None when it does not match
CapturedWord(t, j) ==
    LET m == Search(lower(t), patterns[j])
    IN IF m.ok THEN Group(lower(t), m.caps, 1) ELSE None

RECURSIVE DetectFromFirstMatch(_, _)
\* the loop returning None as soon as a pattern's captured word is not valid
DetectFromFirstMatch(t, j) ==
    IF j > Len(patterns) THEN None
    ELSE LET emotion == CapturedWord(t, j)
         IN IF emotion = None THEN DetectFromFirstMatch(t, j + 1)
            ELSE IF emotion \in valid_emotions THEN emotion
            ELSE None

RECURSIVE DetectFrom(_, _)
\* the loop over the patterns from pattern j on
DetectFrom(t, j) ==
    IF j > Len(patterns) THEN None
    ELSE LET emotion == CapturedWord(t, j)
         IN IF emotion # None /\ emotion \in valid_emotions THEN emotion
            ELSE DetectFrom(t, j + 1)

detect_emotion_request(text) == DetectFrom(text, 1)

(***************************************************************************)
(* emotion_tts.py: analyze_emotion                                         *)
(***************************************************************************)
\* the keyword table, in the order the dict literal defines its keys
emotion_keywords ==
    << [emotion |-> "angry", keywords |-> <<"angry", "mad", "furious", "upset", "annoyed">>],
       [emotion |-> "sad", keywords |-> <<"sad", "unhappy", "depressed">>],
       [emotion |-> "cheerful", keywords |-> <<"cheerful", "happy", "glad", "delighted">>],
       [emotion |-> "excited", keywords |-> <<"excited", "thrilled", "eager">>],
       [emotion |-> "empathetic", keywords |-> <<"understand", "feel for you", "compassion">>],
       [emotion |-> "friendly", keywords |-> <<"friendly", "kind", "nice">>],
       [emotion |-> "delightful", keywords |-> <<"delightful", "warm", "welcoming">>],
       [emotion |-> "joyful", keywords |-> <<"joyful", "ecstatic">>] >>

\* len(re.findall(r'\b' + re.escape(keyword) + r'\b', text.lower()))
KeywordCount(text, keyword) ==
    Len(FindIter(lower(text), <<WordBoundary, Lit(keyword), WordBoundary>>))

RECURSIVE SumCounts(_, _, _)
\* the inner loop: the counts of keywords j.. of the list, added up
SumCounts(text, keywords, j) ==
    IF j > Len(keywords) THEN 0
    ELSE KeywordCount(text, keywords[j]) + SumCounts(text, keywords, j + 1)

\* emotion_scores after the two loops, indexed like emotion_keywords
emotion_scores(text) ==
    [e \in 1..Len(emotion_keywords) |-> SumCounts(text, emotion_keywords[e].keywords, 1)]

RECURSIVE MaxValue(_, _)
\* max(scores.values()) over the entries e..
MaxValue(scores, e) ==
    IF e = Len(scores) THEN scores[e]
    ELSE LET m == MaxValue(scores, e + 1) IN IF scores[e] >= m THEN scores[e] ELSE m

RECURSIVE LastMaxKey(_, _, _)
\* the last key, in iteration order, no other key beats
LastMaxKey(scores, e, best) ==
    IF e > Len(scores) THEN best
    ELSE LastMaxKey(scores, e + 1, IF scores[e] >= scores[best] THEN e ELSE best)

RECURSIVE FirstMaxKey(_, _, _)
\* max(scores, key=scores.get): the first key, in iteration order, a later key
\* does not beat
FirstMaxKey(scores, e, best) ==
    IF e > Len(scores) THEN best
    ELSE FirstMaxKey(scores, e + 1, IF scores[e] > scores[best] THEN e ELSE best)

\* the branch on sentiment['compound'], compound given in units of 1/CompoundScale
SentimentLabel(compound, scale) ==
    IF 2 * compound >= scale THEN "cheerful"
    ELSE IF 2 * compound <= -scale THEN "sad"
    ELSE IF compound > 0 THEN "friendly"
    ELSE "default"

\* analyze_emotion(text), with the compound score the sentiment analyzer gives text
analyze_emotion(text, compound, scale) ==
    LET scores == emotion_scores(text)
    IN IF MaxValue(scores, 1) > 0 THEN emotion_keywords[FirstMaxKey(scores, 2, 1)].emotion
       ELSE SentimentLabel(compound, scale)

(***************************************************************************)
(* emotion_tts.py: build_ssml                                              *)
(***************************************************************************)
emotion_to_style ==
    [t \in {"DEFAULT", "ANGRY", "SAD", "CHEERFUL", "EXCITED", "EMPATHETIC", "FRIENDLY",
            "DELIGHTFUL", "JOYFUL", "LAUGHING"} |->
        CASE t = "DEFAULT" -> [style |-> "friendly", degree |-> "1.0"]
          [] t = "ANGRY" -> [style |-> "angry", degree |-> "1.5"]
          [] t = "SAD" -> [style |-> "sad", degree |-> "1.0"]
          [] t = "CHEERFUL" -> [style |-> "cheerful", degree |-> "1.0"]
          [] t = "EXCITED" -> [style |-> "excited", degree |-> "1.5"]
          [] t = "EMPATHETIC" -> [style |-> "empathetic", degree |-> "1.0"]
          [] t = "FRIENDLY" -> [style |-> "friendly", degree |-> "1.0"]
          [] t = "DELIGHTFUL" -> [style |-> "cheerful", degree |-> "1.3"]
          [] t = "JOYFUL" -> [style |-> "cheerful", degree |-> "2.0"]
          [] t = "LAUGHING" -> [style |-> "cheerful", degree |-> "2.0"]]

voice_name == "en-US-JennyNeural"

\* r'\[(.*?)\](.*?)\[/\1\]' with re.DOTALL
TagPattern == <<Lit("["), LazyAny(1), Lit("]"), LazyAny(2), Lit("[/"), BackRef(1), Lit("]")>>

RECURSIVE FindSub(_, _, _)
\* s.find(sep) from position i on, counted from 1; 0 when sep does not occur
FindSub(s, sep, i) ==
    IF i + Len(sep) - 1 > Len(s) THEN 0
    ELSE IF StartsWithAt(s, i, sep) THEN i
    ELSE FindSub(s, sep, i + 1)

\* content_lines = s.split('\n\n', 1); content_lines[1] if there are two, else s
AfterDoubleNewline(s) ==
    LET at == FindSub(s, "\n\n", 1)
    IN IF at = 0 THEN s ELSE SubSeq(s, at + 2, Len(s))

\* the lookup without .upper()
StyleOfExactCase(emotion_tag) ==
    IF emotion_tag \in DOMAIN emotion_to_style THEN emotion_to_style[emotion_tag]
    ELSE emotion_to_style["DEFAULT"]

\* emotion_to_style.get(emotion_tag.upper(), emotion_to_style['DEFAULT'])
StyleOf(emotion_tag) ==
    IF upper(emotion_tag) \in DOMAIN emotion_to_style THEN emotion_to_style[upper(emotion_tag)]
    ELSE emotion_to_style["DEFAULT"]

\* One express-as element: its style and degree attributes and its text. kind
\* and raw record where the text came from: raw is default_text, or
\* match.group(2) as it was before the double-newline split.
Element(kind, style_info, text, raw) ==
    [kind |-> kind, style |-> style_info.style, degree |-> style_info.degree,
     text |-> text, raw |-> raw]

DefaultElement(default_text) ==
    Element("default", emotion_to_style["DEFAULT"], default_text, default_text)

\* the text after the last match emitted even when it is empty
TailElementsAlways(text, last_end) ==
    <<DefaultElement(SubSeq(text, last_end, Len(text)))>>

\* the element emitted for the text after the last match
TailElements(text, last_end) ==
    IF last_end <= Len(text) THEN <<DefaultElement(SubSeq(text, last_end, Len(text)))>>
    ELSE <<>>

\* the text between two matches emitted only when it is longer than one character
GapElementsOffByOne(text, last_end, m) ==
    IF m.start > last_end + 1 THEN <<DefaultElement(SubSeq(text, last_end, m.start - 1))>>
    ELSE <<>>

\* the element emitted for the text between last_end and the match m
GapElements(text, last_end, m) ==
    IF m.start > last_end THEN <<DefaultElement(SubSeq(text, last_end, m.start - 1))>>
    ELSE <<>>

\* the element emitted for the match m
SpanElement(text, m) ==
    LET emotion_tag == Group(text, m.caps, 1)
        emotion_text == Group(text, m.caps, 2)
    IN Element("tagged", StyleOf(emotion_tag), AfterDoubleNewline(emotion_text), emotion_text)

RECURSIVE ElementsFrom(_, _, _, _)
\* the loop over re.finditer from match k on, then the text after the last match;
\* last_end is the position after the previous match, counted from 1
ElementsFrom(text, matches, k, last_end) ==
    IF k > Len(matches) THEN TailElements(text, last_end)
    ELSE GapElements(text, last_end, matches[k]) \o <<SpanElement(text, matches[k])>>
            \o ElementsFrom(text, matches, k + 1, matches[k].end)

\* the express-as elements of build_ssml(text), in the order they are appended
ssml_elements(text) == ElementsFrom(text, FindIter(text, TagPattern), 1, 1)

ExpressAs(e) ==
    "<mstts:express-as style=\"" \o e.style \o "\" styledegree=\"" \o e.degree \o "\">"
        \o e.text \o "</mstts:express-as>"

RECURSIVE Joined(_, _)
Joined(elements, k) ==
    IF k > Len(elements) THEN "" ELSE ExpressAs(elements[k]) \o Joined(elements, k + 1)

\* the document build_ssml returns
build_ssml(text) ==
    "<speak xmlns=\"http://www.w3.org/2001/10/synthesis\" "
        \o "xmlns:mstts=\"http://www.w3.org/2001/mstts\" "
        \o "version=\"1.0\" xml:lang=\"en-US\">"
        \o "<voice name=\"" \o voice_name \o "\">"
        \o "<prosody rate=\"0.9\" pitch=\"0\">"
        \o Joined(ssml_elements(text), 1)
        \o "</prosody>" \o "</voice></speak>"

(***************************************************************************)
(* agent.py: the process state, entrypoint and the speech handler          *)
(***************************************************************************)
\* entrypoint runs per process at most MaxCalls times
MaxCalls == 2

\* utterances handled per call
MaxUtterances == 2

WELCOME_MESSAGE ==
    "Hi there! I'm Phillips from Phillips Estate Agency. Whether you're looking to buy or rent, I can help you find options that match your preferences and budget. So, are you interested in buying or renting a property today?"

\* what the recognizer hands to on_user_speech_committed
Utterances ==
    {"haha", "switch to angry mode", "Can you speak in a cheerful tone?",
     "That's funny, speak in a sad tone", " hello there ", "speak in a default tone"}

\* what the conversational model answers
Replies == {"Sure."}

VARIABLES
    CURRENT_EMOTION,     \* module global, line 40
    WELCOME_PLAYED,      \* module global, line 43
    USING_NATIVE_TTS,    \* module global, line 46
    native_importable,   \* whether "import livekit.agents.tts" succeeds in this process
    pc,                  \* where entrypoint stands: idle, method1, method2, method3, listening
    calls,               \* executions of entrypoint so far
    conversation,        \* session.conversation of the current call: <<[role, content]>>
    welcome_log,         \* the attempts of the current call's welcome sequence
    flag_at_start,       \* WELCOME_PLAYED as the current call's entrypoint found it
    flag_rises,          \* false -> true changes of WELCOME_PLAYED in the current call
    handled,             \* utterances handled in the current call
    last_run,            \* what the last run of handle_user_input did
    last_request_any,    \* the label requested by the last handled utterance that requests one
    last_request_plain,  \* the same, among the utterances without a laugh trigger
    fn_in,               \* the argument of the text function under check
    fn_out,              \* its result
    fn_done              \* whether it has been applied

vars ==
    <<CURRENT_EMOTION, WELCOME_PLAYED, USING_NATIVE_TTS, native_importable, pc, calls,
      conversation, welcome_log, flag_at_start, flag_rises, handled, last_run,
      last_request_any, last_request_plain, fn_in, fn_out, fn_done>>

process_vars ==
    <<CURRENT_EMOTION, WELCOME_PLAYED, USING_NATIVE_TTS, native_importable, pc, calls,
      conversation, welcome_log, flag_at_start, flag_rises, handled, last_run,
      last_request_any, last_request_plain>>

fn_vars == <<fn_in, fn_out, fn_done>>

\* One attempt to speak: the method, whether it succeeded, and the text handed
\* to it; a local attempt's text is handed to build_ssml first when built holds.
Attempt(method, ok, payload, built) ==
    [method |-> method, ok |-> ok, payload |-> payload, built |-> built]

NoRun ==
    [kind |-> "none", error |-> "", log |-> <<>>, requested |-> None, appended |-> <<>>,
     content |-> ""]

\* the module-level assignments of agent.py, before any call
ProcessInit ==
    /\ CURRENT_EMOTION = "delightful"
    /\ WELCOME_PLAYED = FALSE
    /\ USING_NATIVE_TTS = FALSE
    /\ native_importable \in BOOLEAN
    /\ pc = "idle"
    /\ calls = 0
    /\ conversation = <<>>
    /\ welcome_log = <<>>
    /\ flag_at_start = FALSE
    /\ flag_rises = 0
    /\ handled = 0
    /\ last_run = NoRun
    /\ last_request_any = None
    /\ last_request_plain = None

Init == ProcessInit /\ fn_in = "" /\ fn_out = "" /\ fn_done = FALSE

Rises(before, after) == IF ~before /\ after THEN 1 ELSE 0

\* entrypoint up to the welcome sequence: connect, set up the model, wait for
\* the participant, probe the native TTS import, create the welcome item
Entrypoint ==
    /\ pc = "idle"
    /\ calls < MaxCalls
    /\ calls' = calls + 1
    /\ USING_NATIVE_TTS' = IF native_importable THEN TRUE ELSE USING_NATIVE_TTS
    /\ conversation' = <<[role |-> "assistant", content |-> WELCOME_MESSAGE]>>
    /\ welcome_log' = <<>>
    /\ flag_at_start' = WELCOME_PLAYED
    /\ flag_rises' = 0
    /\ handled' = 0
    /\ last_run' = NoRun
    /\ pc' = "method1"
    /\ UNCHANGED <<CURRENT_EMOTION, WELCOME_PLAYED, native_importable, last_request_any, last_request_plain>>
    /\ UNCHANGED fn_vars

\* Method 1 is attempted
NativeGuard == USING_NATIVE_TTS

\* Method 1: livekit.agents.tts.synthesize_speech, when available
WelcomeNative ==
    /\ pc = "method1"
    /\ pc' = "method2"
    /\ IF NativeGuard
       THEN \E ok \in BOOLEAN :
              /\ welcome_log' = Append(welcome_log, Attempt("native", ok, WELCOME_MESSAGE, FALSE))
              /\ WELCOME_PLAYED' = IF ok THEN TRUE ELSE WELCOME_PLAYED
              /\ USING_NATIVE_TTS' = IF ok THEN USING_NATIVE_TTS ELSE FALSE
       ELSE UNCHANGED <<welcome_log, WELCOME_PLAYED, USING_NATIVE_TTS>>
    /\ flag_rises' = flag_rises + Rises(WELCOME_PLAYED, WELCOME_PLAYED')
    /\ UNCHANGED <<CURRENT_EMOTION, native_importable, calls, conversation, flag_at_start,
                   handled, last_run, last_request_any, last_request_plain>>
    /\ UNCHANGED fn_vars

\* Method 2 attempted whatever Method 1 did
PublishGuardAlways == TRUE

\* Method 2 is attempted
PublishGuard == ~WELCOME_PLAYED

\* Method 2: LiveKitClient.send_tts_request, which returns False when the
\* publish raises
WelcomePublish ==
    /\ pc = "method2"
    /\ pc' = "method3"
    /\ IF PublishGuard
       THEN \E ok \in BOOLEAN :
              /\ welcome_log' = Append(welcome_log, Attempt("publish", ok, WELCOME_MESSAGE, FALSE))
              /\ WELCOME_PLAYED' = IF ok THEN TRUE ELSE WELCOME_PLAYED
       ELSE UNCHANGED <<welcome_log, WELCOME_PLAYED>>
    /\ flag_rises' = flag_rises + Rises(WELCOME_PLAYED, WELCOME_PLAYED')
    /\ UNCHANGED <<CURRENT_EMOTION, USING_NATIVE_TTS, native_importable, calls, conversation,
                   flag_at_start, handled, last_run, last_request_any, last_request_plain>>
    /\ UNCHANGED fn_vars

\* Method 3 is attempted
LocalGuard == ~WELCOME_PLAYED

\* Method 3: build_ssml and speak_ssml, which logs and swallows its failures;
\* then the handler is registered and the call listens
WelcomeLocal ==
    /\ pc = "method3"
    /\ pc' = "listening"
    /\ IF LocalGuard
       THEN \E ok \in BOOLEAN :
              /\ welcome_log' = Append(welcome_log, Attempt("local", ok, "[DELIGHTFUL]" \o WELCOME_MESSAGE \o "[/DELIGHTFUL]", TRUE))
              /\ WELCOME_PLAYED' = TRUE
       ELSE UNCHANGED <<welcome_log, WELCOME_PLAYED>>
    /\ flag_rises' = flag_rises + Rises(WELCOME_PLAYED, WELCOME_PLAYED')
    /\ UNCHANGED <<CURRENT_EMOTION, USING_NATIVE_TTS, native_importable, calls, conversation,
                   flag_at_start, handled, last_run, last_request_any, last_request_plain>>
    /\ UNCHANGED fn_vars

RECURSIVE lstrip(_)
lstrip(s) == IF s # "" /\ CharAt(s, 1) \in SpaceChars THEN lstrip(SubSeq(s, 2, Len(s))) ELSE s

RECURSIVE rstrip(_)
rstrip(s) ==
    IF s # "" /\ CharAt(s, Len(s)) \in SpaceChars THEN rstrip(SubSeq(s, 1, Len(s) - 1)) ELSE s

\* str.strip()
strip(s) == lstrip(rstrip(s))

\* r'\b(laugh|haha|joke|funny|make me laugh)\b'
LaughPattern ==
    <<WordBoundary, AltLit(<<"laugh", "haha", "joke", "funny", "make me laugh">>), WordBoundary>>

\* USING_NATIVE_TTS as handle_user_input sees it when it starts. The handler
\* assigns the name (line 248) and declares only CURRENT_EMOTION global (line
\* 201), so in the handler the name is a local variable, and it is unbound
\* until that assignment runs: "unbound", "true" or "false".
handler_USING_NATIVE_TTS == "unbound"

\* send_tts_request, then speak_ssml when it returns False
PublishThenLocal(env, text, tagged, built) ==
    IF env.publish THEN <<Attempt("publish", TRUE, text, FALSE)>>
    ELSE <<Attempt("publish", FALSE, text, FALSE), Attempt("local", env.speak, tagged, built)>>

\* The if/elif/else of lines 207-212 and 223-230: the native call is not in
\* a try block, so its failure leaves the handler.
SpeakUnguarded(flag, env, text, tagged, built) ==
    IF flag = "unbound" THEN [log |-> <<>>, error |-> "UnboundLocalError"]
    ELSE IF flag = "true"
         THEN [log |-> <<Attempt("native", env.native, text, FALSE)>>,
               error |-> IF env.native THEN "" ELSE "native"]
    ELSE [log |-> PublishThenLocal(env, text, tagged, built), error |-> ""]

\* The if/elif/else of lines 242-269: the native call is in a try block whose
\* handler goes on to the data channel and the custom TTS.
SpeakGuarded(flag, env, text, tagged, built) ==
    IF flag = "unbound" THEN [log |-> <<>>, error |-> "UnboundLocalError"]
    ELSE IF flag = "true"
         THEN [log |-> IF env.native THEN <<Attempt("native", TRUE, text, FALSE)>>
                       ELSE <<Attempt("native", FALSE, text, FALSE)>>
                                \o PublishThenLocal(env, text, tagged, built),
               error |-> ""]
    ELSE [log |-> PublishThenLocal(env, text, tagged, built), error |-> ""]

Acknowledgment(requested_emotion) == "I'll now speak in a " \o requested_emotion \o " tone."

Tagged(emotion, text) == "[" \o upper(emotion) \o "]" \o text \o "[/" \o upper(emotion) \o "]"

\* the assignment of line 217 left out
AssignEmotionNever(current, requested_emotion) == current

\* CURRENT_EMOTION after lines 215-217
AssignEmotion(current, requested_emotion) ==
    IF requested_emotion # None THEN requested_emotion ELSE current

\* lines 206-213
LaughBranch(flag, env) ==
    LET spoken == SpeakUnguarded(flag, env, "haha", "[LAUGHING]laugh[/LAUGHING]", FALSE)
    IN [kind |-> "laugh", requested |-> None, appended |-> <<>>,
        log |-> spoken.log, error |-> spoken.error]

\* lines 216-231
EmotionBranch(requested_emotion, flag, env) ==
    LET acknowledgment == Acknowledgment(requested_emotion)
        spoken == SpeakUnguarded(flag, env, acknowledgment,
                                 Tagged(requested_emotion, acknowledgment), TRUE)
    IN [kind |-> "emotion", requested |-> requested_emotion,
        appended |-> <<[role |-> "assistant", content |-> acknowledgment]>>,
        log |-> spoken.log, error |-> spoken.error]

\* lines 233-269; session.response.create() raises when env.generate is false,
\* and appends the model's reply otherwise
ChatBranch(user_input, emotion, flag, env, reply) ==
    LET spoken == SpeakGuarded(flag, env, strip(reply), Tagged(emotion, strip(reply)), TRUE)
    IN IF ~env.generate
       THEN [kind |-> "chat", requested |-> None,
             appended |-> <<[role |-> "user", content |-> user_input]>>,
             log |-> <<>>, error |-> "generation"]
       ELSE [kind |-> "chat", requested |-> None,
             appended |-> <<[role |-> "user", content |-> user_input],
                            [role |-> "assistant", content |-> reply]>>,
             log |-> spoken.log, error |-> spoken.error]

\* What lines 202-215 compute from msg.content, tabulated over Utterances:
\* the stripped text, whether the laugh pattern is found in it, and what
\* detect_emotion_request gives for it.
Heard ==
    [content \in Utterances |->
        LET user_input == strip(content)
        IN [user_input |-> user_input,
            laugh |-> Search(lower(user_input), LaughPattern).ok,
            requested_emotion |-> detect_emotion_request(user_input)]]

\* handle_user_input(msg): what one run does, given the outcomes env of the
\* external calls and the reply the model would give
handle_user_input(content, emotion, flag, env, reply) ==
    LET heard == Heard[content]
    IN IF heard.laugh THEN LaughBranch(flag, env)
       ELSE IF heard.requested_emotion # None
            THEN EmotionBranch(heard.requested_emotion, flag, env)
       ELSE ChatBranch(heard.user_input, emotion, flag, env, reply)

\* the outcomes of the external calls of one run: native TTS, side-channel
\* publish, model generation, speech synthesis and playback
Outcomes == [native : BOOLEAN, publish : BOOLEAN, generate : BOOLEAN, speak : BOOLEAN]

\* the run of the handler together with the msg.content it was given
RunOf(content, run) ==
    [f \in (DOMAIN run) \cup {"content"} |-> IF f = "content" THEN content ELSE run[f]]

\* on_user_speech_committed(msg) with a text message: one run of the handler
OnUserSpeechCommitted(content, env, reply) ==
    /\ pc = "listening"
    /\ handled < MaxUtterances
    /\ handled' = handled + 1
    /\ LET run == handle_user_input(content, CURRENT_EMOTION, handler_USING_NATIVE_TTS, env, reply)
       IN /\ last_run' = RunOf(content, run)
          /\ CURRENT_EMOTION' = AssignEmotion(CURRENT_EMOTION, run.requested)
          /\ conversation' = conversation \o run.appended
    /\ last_request_any' =
          IF Heard[content].requested_emotion # None THEN Heard[content].requested_emotion
          ELSE last_request_any
    /\ last_request_plain' =
          IF ~Heard[content].laugh /\ Heard[content].requested_emotion # None
          THEN Heard[content].requested_emotion
          ELSE last_request_plain
    /\ UNCHANGED <<WELCOME_PLAYED, USING_NATIVE_TTS, native_importable, pc, calls, welcome_log,
                   flag_at_start, flag_rises>>
    /\ UNCHANGED fn_vars

\* the call ends; the process and its module globals stay for the next job
EndCall ==
    /\ pc = "listening"
    /\ pc' = "idle"
    /\ UNCHANGED <<CURRENT_EMOTION, WELCOME_PLAYED, USING_NATIVE_TTS, native_importable, calls,
                   conversation, welcome_log, flag_at_start, flag_rises, handled, last_run,
                   last_request_any, last_request_plain>>
    /\ UNCHANGED fn_vars

Handle == \E content \in Utterances, env \in Outcomes, reply \in Replies :
              OnUserSpeechCommitted(content, env, reply)

Next ==
    \/ Entrypoint
    \/ WelcomeNative
    \/ WelcomePublish
    \/ WelcomeLocal
    \/ Handle
    \/ EndCall

Spec == Init /\ [][Next]_vars

(***************************************************************************)
(* Properties of the call: the welcome sequence and the speech handler     *)
(***************************************************************************)
\* the enumerated EmotionLabel set
EmotionLabel ==
    {"angry", "sad", "cheerful", "excited", "empathetic", "friendly", "shouting",
     "terrified", "unfriendly", "newscast", "narration", "poetry", "curious", "confused",
     "joyful", "delightful", "default"}

\* C1: in every call WELCOME_PLAYED is false when the call begins, goes from
\* false to true exactly once during the call's welcome sequence, and is not
\* set back to false afterwards.
C1_WelcomeFlagOncePerCall ==
    calls > 0 =>
        /\ ~flag_at_start
        /\ flag_rises <= 1
        /\ (flag_rises = 1 => WELCOME_PLAYED)
        /\ (pc \in {"listening", "idle"} => flag_rises = 1)

\* C2: handling a user utterance always returns normally: no exception leaves
\* handle_user_input, whatever the utterance and the outcomes of the external
\* calls.
C2_HandlerReturnsNormally == last_run.error = ""

MethodRank(method) == CASE method = "native" -> 1 [] method = "publish" -> 2 [] method = "local" -> 3

\* C3: the welcome message goes through the chain native TTS, side-channel
\* publish, local synthesis: a method is attempted only after every earlier
\* method failed or was unavailable, none is attempted after a success, and at
\* most one method delivers.
C3_WelcomeChainOrdered ==
    /\ \A i, j \in 1..Len(welcome_log) :
          i < j => /\ MethodRank(welcome_log[i].method) < MethodRank(welcome_log[j].method)
                   /\ ~welcome_log[i].ok
    /\ \A j \in 1..Len(welcome_log) :
          /\ welcome_log[j].method = "publish" =>
                \/ ~native_importable
                \/ \E i \in 1..(j - 1) : welcome_log[i].method = "native"
          /\ welcome_log[j].method = "local" =>
                \E i \in 1..(j - 1) : welcome_log[i].method = "publish"
    /\ Cardinality({j \in 1..Len(welcome_log) : welcome_log[j].ok}) <= 1

\* C3 witness: native TTS and the publish failed and local synthesis was attempted
C3_Witness ==
    /\ Len(welcome_log) = 3
    /\ welcome_log[1].method = "native" /\ ~welcome_log[1].ok
    /\ welcome_log[2].method = "publish" /\ ~welcome_log[2].ok
    /\ welcome_log[3].method = "local"

\* the chain log ran to its end: its last attempt succeeded or was the last method,
\* and every failed attempt is followed by the next method
ChainComplete(log) ==
    /\ log # <<>>
    /\ log[Len(log)].ok \/ log[Len(log)].method = "local"
    /\ \A i \in 1..(Len(log) - 1) :
          ~log[i].ok /\ MethodRank(log[i + 1].method) = MethodRank(log[i].method) + 1

\* C4: when the agent speaks a reply to an utterance (the acknowledgment or the
\* model's reply), a failed native attempt falls through to the publish and a
\* failed publish to local synthesis: the chain does not end while no method
\* has succeeded and a later method is untried.
C4_ReplyChainFallsThrough ==
    (last_run.kind = "emotion" \/ (last_run.kind = "chat" /\ last_run.error # "generation"))
        => ChainComplete(last_run.log)

UserEntry(content) == [role |-> "user", content |-> strip(content)]

AcknowledgmentEntry(emotion) == [role |-> "assistant", content |-> Acknowledgment(emotion)]

IsIn(entry, entries) == \E k \in 1..Len(entries) : entries[k] = entry

\* C11: for every handled utterance the matcher is consulted first: when it
\* matches, the handler records the requested emotion, appends the
\* acknowledgment as an assistant entry, speaks it and returns, without
\* appending the utterance or asking the model for a reply; the utterance is
\* appended as a user entry and a model reply is requested if and only if the
\* matcher gives no match.
C11_MatcherConsultedFirst ==
    last_run.kind # "none" =>
        LET requested_emotion == detect_emotion_request(strip(last_run.content))
            matched == requested_emotion # None
        IN /\ matched =>
                 /\ CURRENT_EMOTION = requested_emotion
                 /\ last_run.appended = <<AcknowledgmentEntry(requested_emotion)>>
                 /\ \E k \in 1..Len(last_run.log) : last_run.log[k].ok
                 /\ last_run.error = ""
           /\ (IsIn(UserEntry(last_run.content), last_run.appended) /\ last_run.kind = "chat")
                 <=> ~matched

(***************************************************************************)
(* The text functions, each applied to an argument drawn from a bounded    *)
(* set of texts                                                            *)
(***************************************************************************)
RECURSIVE Sentences(_, _, _)
\* the texts made of n of the given words, joined by sep
Sentences(words, sep, n) ==
    IF n = 0 THEN {}
    ELSE IF n = 1 THEN words
    ELSE {s \o sep \o w : s \in Sentences(words, sep, n - 1), w \in words}

SentencesUpTo(words, sep, max) == UNION {Sentences(words, sep, n) : n \in 1..max}

\* the argument stays as it is while the function is applied
Apply(result) ==
    /\ ~fn_done
    /\ fn_done' = TRUE
    /\ fn_out' = result
    /\ UNCHANGED fn_in
    /\ UNCHANGED process_vars

\* ---- detect_emotion_request
MaxPhrases == 3

DetectPhrases ==
    {"speak in a", "switch to", "use a more", "angry", "Sad", "default", "mode"}

DetectExamples ==
    {"Can you speak in a cheerful tone?", "switch to angry mode",
     "make your voice more empathetic", "speak in a default tone",
     "be in a hurry, can you speak in a sad tone", "speak in a hurry, switch to angry mode",
     "go to sleep mode, use a more cheerful", "maybe  excited", "Could you please be joyful",
     "", "sad news today"}

DetectInputs == SentencesUpTo(DetectPhrases, " ", MaxPhrases) \cup DetectExamples

InitDetect == ProcessInit /\ ~native_importable /\ fn_in \in DetectInputs /\ fn_out = "" /\ fn_done = FALSE

ApplyDetect == Apply(detect_emotion_request(fn_in))

NextDetect == ApplyDetect

SpecDetect == InitDetect /\ [][NextDetect]_vars

\* the patterns, by position in the list, whose captured word is one of labels
Hits(t, labels) == {j \in 1..Len(patterns) : CapturedWord(t, j) \in labels}

\* the word captured by the first pattern whose captured word is one of labels
FirstHit(t, labels) ==
    IF Hits(t, labels) = {} THEN None
    ELSE CapturedWord(t, CHOOSE j \in Hits(t, labels) : \A h \in Hits(t, labels) : j <= h)

DetectExamplesHold ==
    /\ fn_in = "Can you speak in a cheerful tone?" => fn_out = "cheerful"
    /\ fn_in = "switch to angry mode" => fn_out = "angry"
    /\ fn_in = "make your voice more empathetic" => fn_out = "empathetic"

\* C6 as claimed: detect_emotion_request returns the captured word of the first
\* pattern, in list order, that matches the lower-cased utterance with a
\* captured word in the enumerated EmotionLabel set, and no match when no
\* pattern does; the three example utterances give cheerful, angry, empathetic.
C6_FirstPatternWithEnumeratedLabel ==
    fn_done => fn_out = FirstHit(fn_in, EmotionLabel) /\ DetectExamplesHold

\* C6 amended: the same with the captured word required to be one of the
\* sixteen enumerated labels other than default.
C6_FirstPatternWithRequestableLabel ==
    fn_done => fn_out = FirstHit(fn_in, EmotionLabel \ {"default"}) /\ DetectExamplesHold

\* C6 witness: the first pattern's match captures an unrecognized word and is
\* discarded, and the second pattern's match gives the label
C6_Witness ==
    /\ fn_done
    /\ fn_in = "be in a hurry, can you speak in a sad tone"
    /\ CapturedWord(fn_in, 1) = "hurry"
    /\ fn_out = "sad"

\* ---- analyze_emotion
MaxWords == 2

\* the compound score is k / CompoundScale for k in -CompoundScale..CompoundScale
CompoundScale == 4

AnalyzeWords == {"happy", "mad", "Sad", "unhappy", "glad"}

AnalyzeExamples ==
    {"", "I am so happy and delighted today", "I feel for you", "madness, sadly",
     "This is wonderful, amazing, fantastic news!"}

AnalyzeInputs ==
    [text : SentencesUpTo(AnalyzeWords, " ", MaxWords) \cup AnalyzeExamples,
     compound : (-CompoundScale)..CompoundScale]

InitAnalyze == ProcessInit /\ ~native_importable /\ fn_in \in AnalyzeInputs /\ fn_out = "" /\ fn_done = FALSE

ApplyAnalyze == Apply(analyze_emotion(fn_in.text, fn_in.compound, CompoundScale))

NextAnalyze == ApplyAnalyze

SpecAnalyze == InitAnalyze /\ [][NextAnalyze]_vars

\* C7: analyze_emotion returns one enumerated label for every text: when some
\* label's whole-word keyword count is positive, the label with the maximum
\* count, the first of the table among equals, whatever the sentiment score;
\* otherwise cheerful for polarity >= 0.5, sad for polarity <= -0.5, friendly
\* for 0 < polarity < 0.5, and default in every other case.
C7_AnalyzeEmotion ==
    fn_done =>
        LET n == Len(emotion_keywords)
            count == emotion_scores(fn_in.text)
            c == fn_in.compound
        IN /\ fn_out \in EmotionLabel
           /\ IF \E e \in 1..n : count[e] > 0
              THEN \E e \in 1..n :
                      /\ fn_out = emotion_keywords[e].emotion
                      /\ \A f \in 1..n : count[f] <= count[e]
                      /\ \A f \in 1..(e - 1) : count[f] < count[e]
              ELSE /\ 2 * c >= CompoundScale => fn_out = "cheerful"
                   /\ 2 * c <= -CompoundScale => fn_out = "sad"
                   /\ (c > 0 /\ 2 * c < CompoundScale) => fn_out = "friendly"
                   /\ (c <= 0 /\ 2 * c > -CompoundScale) => fn_out = "default"
           /\ (fn_in.text = "I am so happy and delighted today") => fn_out = "cheerful"

\* C7 witness: two labels tie and the one defined first wins against a
\* strongly negative sentiment score
C7_Witness ==
    /\ fn_done
    /\ fn_in.text = "Sad mad"
    /\ fn_in.compound = -CompoundScale
    /\ fn_out = "angry"

\* ---- build_ssml
MaxTokens == 3

SsmlTokens ==
    {"[SAD]", "[/SAD]", "[sad]", "[/sad]", "[Foo]", "[/Foo]", "hi", "p\n\nq", "[", "]"}

SsmlExamples ==
    {"", "plain text, no tags", "[ANGRY]stop![/ANGRY]", "[FOO]hi[/FOO]",
     "hi[ANGRY]stop![/ANGRY] [sad]p\n\nq[/sad]!", "[joyful][FOO]hi[/FOO][/joyful]",
     "[][/]", "[sad]never closed"}

SsmlInputs == SentencesUpTo(SsmlTokens, "", MaxTokens) \cup SsmlExamples

InitSsml == ProcessInit /\ ~native_importable /\ fn_in \in SsmlInputs /\ fn_out = <<>> /\ fn_done = FALSE

ApplySsml == Apply(ssml_elements(fn_in))

NextSsml == ApplySsml

SpecSsml == InitSsml /\ [][NextSsml]_vars

RECURSIVE ConcatRaw(_, _)
\* the texts of the elements k.. joined, each as it was before its
\* double-newline stripping
ConcatRaw(elements, k) ==
    IF k > Len(elements) THEN "" ELSE elements[k].raw \o ConcatRaw(elements, k + 1)

\* the positions of text taken by the [TAG] and [/TAG] markers of its tagged spans
MarkerPositions(text) ==
    LET matches == FindIter(text, TagPattern)
    IN UNION { (matches[k].start .. matches[k].caps[1][2])
                   \cup (matches[k].caps[2][2] .. (matches[k].end - 1)) : k \in 1..Len(matches) }

RECURSIVE Without(_, _, _)
\* text from position i on, without the characters at the positions in drop
Without(text, drop, i) ==
    IF i > Len(text) THEN ""
    ELSE (IF i \in drop THEN "" ELSE CharAt(text, i)) \o Without(text, drop, i + 1)

\* the stripping undone by raw is the double-newline stripping and nothing else
OnlyDoubleNewlineStripped(e) ==
    IF e.kind = "tagged" /\ FindSub(e.raw, "\n\n", 1) > 0
    THEN e.raw = SubSeq(e.raw, 1, FindSub(e.raw, "\n\n", 1) - 1) \o "\n\n" \o e.text
    ELSE e.text = e.raw

\* C8 as claimed: the texts of the elements build_ssml emits, joined in emission
\* order with the double-newline stripping undone, are the input.
C8_ElementsReconstructInput ==
    fn_done => /\ ConcatRaw(fn_out, 1) = fn_in
               /\ \A k \in 1..Len(fn_out) : OnlyDoubleNewlineStripped(fn_out[k])

\* C8 amended: the texts of the elements build_ssml emits, joined in emission
\* order with the double-newline stripping undone, are the input without the
\* [TAG] and [/TAG] markers of its tagged spans.
C8_ElementsReconstructContent ==
    fn_done => /\ ConcatRaw(fn_out, 1) = Without(fn_in, MarkerPositions(fn_in), 1)
               /\ \A k \in 1..Len(fn_out) : OnlyDoubleNewlineStripped(fn_out[k])

\* C8 witness: text before, between and after two tagged spans, one of them
\* with a double newline
C8_Witness ==
    /\ fn_done
    /\ fn_in = "hi[ANGRY]stop![/ANGRY] [sad]p\n\nq[/sad]!"
    /\ Len(fn_out) = 5
    /\ fn_out[4].text = "q"

\* text holds a well-formed tagged span: an opening [TAG] and, after it, the
\* closing [/TAG] of the same TAG
HasTaggedSpan(text) ==
    LET at(c) == {i \in 1..Len(text) : CharAt(text, i) = c}
    IN \E i \in at("[") : \E j \in at("]") : \E k \in at("[") :
          /\ i < j
          /\ j < k
          /\ StartsWithAt(text, k, "[/" \o SubSeq(text, i + 1, j - 1) \o "]")

IsDefaultOf(e, text) == e.style = "friendly" /\ e.degree = "1.0" /\ e.text = text

\* C9 as claimed: for every input without a well-formed tagged span, the
\* empty string included, build_ssml emits exactly one DEFAULT-styled element
\* whose text is the whole input.
C9_UntaggedInputOneDefaultElement ==
    (fn_done /\ ~HasTaggedSpan(fn_in)) => Len(fn_out) = 1 /\ IsDefaultOf(fn_out[1], fn_in)

\* C9 amended: for every non-empty input without a well-formed tagged span
\* build_ssml emits exactly one DEFAULT-styled element whose text is the whole
\* input; for the empty string it emits no element.
C9_NonEmptyUntaggedInputOneDefaultElement ==
    (fn_done /\ ~HasTaggedSpan(fn_in)) =>
        IF fn_in = "" THEN fn_out = <<>>
        ELSE Len(fn_out) = 1 /\ IsDefaultOf(fn_out[1], fn_in)

\* C9 witness: an input with brackets and no closing tag
C9_Witness ==
    /\ fn_done
    /\ fn_in = "[sad]never closed"
    /\ Len(fn_out) = 1
    /\ fn_out[1].text = "[sad]never closed"

IsTagged(e) == e.kind = "tagged"

\* C10: for every tagged span [TAG]text[/TAG] build_ssml emits exactly one
\* element, whose style and degree are the StyleProfile entry of TAG looked up
\* without regard to case, or DEFAULT's when TAG has no entry;
\* "[ANGRY]stop![/ANGRY]" gives angry, 1.5, "stop!" and "[FOO]hi[/FOO]" gives
\* DEFAULT's style and degree with "hi".
C10_TaggedSpanStyle ==
    fn_done =>
        LET matches == FindIter(fn_in, TagPattern)
            tagged == SelectSeq(fn_out, IsTagged)
        IN /\ Len(tagged) = Len(matches)
           /\ \A k \in 1..Len(matches) :
                 LET TAG == upper(Group(fn_in, matches[k].caps, 1))
                     entry == IF TAG \in DOMAIN emotion_to_style THEN emotion_to_style[TAG]
                              ELSE emotion_to_style["DEFAULT"]
                 IN /\ tagged[k].style = entry.style
                    /\ tagged[k].degree = entry.degree
                    /\ tagged[k].raw = Group(fn_in, matches[k].caps, 2)
           /\ fn_in = "[ANGRY]stop![/ANGRY]" =>
                 /\ Len(fn_out) = 1
                 /\ fn_out[1].style = "angry" /\ fn_out[1].degree = "1.5"
                 /\ fn_out[1].text = "stop!"
           /\ fn_in = "[FOO]hi[/FOO]" =>
                 /\ Len(fn_out) = 1
                 /\ fn_out[1].style = "friendly" /\ fn_out[1].degree = "1.0"
                 /\ fn_out[1].text = "hi"
           /\ fn_in = "[sad]hi[/sad]" =>
                 /\ Len(fn_out) = 1
                 /\ fn_out[1].style = "sad" /\ fn_out[1].degree = "1.0"

\* C10 witness: a lower-case tag found in the StyleProfile
C10_Witness ==
    /\ fn_done
    /\ fn_in = "[sad]hi[/sad]"
    /\ Len(fn_out) = 1
    /\ fn_out[1].style = "sad"

=============================================================================
